---- MODULE Spec2Model ----
(***************************************************************************)
(* A model of src/pageinfo/pageinfo.py: the page estimators guess_pages,   *)
(* guess_pagenum and guess_lines, the contour filters, and guess_pageinfo, *)
(* which scans an image buffer twice, optionally draws a diagnostic        *)
(* overlay on it, and composes the estimators' results; and of main of     *)
(* src/csv2report.py, which re-totals a CSV and writes a report.           *)
(***************************************************************************)
EXTENDS Integers, Naturals, Sequences, FiniteSets, TLC

VARIABLES
    fn, args, ret,                 \* a direct call of one estimator
    im,                            \* the caller's image buffer
    call,                          \* which of two successive calls runs
    pc,                            \* position inside guess_pageinfo
    debug_draw_image,              \* the option of the running call
    actual_scrollbar_contours,     \* local of guess_pageinfo
    scrollable_area_contours,      \* local of guess_pageinfo
    im_gray,                       \* local of guess_pageinfo: grayscale copy of the crop
    scans,                         \* the thresholds the running call has scanned at
    log,                           \* finished calls: input buffer, option, outcome
    written,                       \* crops handed to cv2.imwrite
    input,                         \* csv2report: the rows of args.input
    reader,                        \* csv2report: r, the rows csv.reader has not yielded yet
    header, summary,               \* locals of main
    actual_summary, rounds,        \* locals of main
    has_migging_rows,              \* local of main
    row_i,                         \* local of main: i of the loop over the rows
    records,                       \* what main handed to the logger
    output,                        \* what main wrote to args.output
    main_pc,                       \* position inside main
    main_ret                       \* outcome of main

\* the state of csv2report.main
Report == <<input, reader, header, summary, actual_summary, rounds, has_migging_rows,
            row_i, records, output, main_pc, main_ret>>

vars == <<fn, args, ret, im, call, pc, debug_draw_image,
          im_gray, actual_scrollbar_contours, scrollable_area_contours, scans,
          log, written, Report>>

None == [kind |-> "None", val |-> <<>>]

\* main is not running
MainIdle ==
    /\ input = <<>> /\ reader = <<>>
    /\ header = <<>> /\ summary = <<>>
    /\ actual_summary = <<>> /\ rounds = 0
    /\ has_migging_rows = FALSE
    /\ row_i = -1
    /\ records = <<>> /\ output = <<>>
    /\ main_pc = "over" /\ main_ret = None

Abs(n) == IF n < 0 THEN -n ELSE n

Min(a, b) == IF a < b THEN a ELSE b

Max(a, b) == IF a > b THEN a ELSE b

(***************************************************************************)
(* Outcomes of a Python call: a returned value or a raised exception.      *)
(***************************************************************************)
ReturnTuple(t) == [kind |-> "return", val |-> t]

Return(v) == ReturnTuple(<<v>>)

Raise(e) == [kind |-> e, val |-> <<>>]

NOSCROLL_PAGE_INFO == <<1, 1, 0>>

(***************************************************************************)
(* Python floats.  The estimators compare an int times the literal 1.1 or  *)
(* 2.2, or a quotient of two ints, with an int or a two-digit literal.     *)
(* The double nearest 1.1 is 1.1 + 0.4 * 2^-52 (2.2 is twice that), and    *)
(* the product is rounded to nearest, ties to even.  So a * 1.1 > b is the *)
(* exact comparison 11a > 10b except on an exact tie 11a = 10b, where the  *)
(* excess 0.4a * 2^-52 survives the rounding iff it is more than half an   *)
(* ulp of b, 2^(k-1) * 2^-52 with 2^k <= b < 2^(k+1): iff 4a > 5 * 2^k.    *)
(* (50 * 1.1 > 55 is True in Python, 10 * 1.1 > 11 is False.)              *)
(***************************************************************************)
RECURSIVE FloorPow2(_)
FloorPow2(n) == IF n < 2 THEN 1 ELSE 2 * FloorPow2(n \div 2)

\* fl(a * (c10/10)) > b for c10 in {11, 22}, a >= 0, b >= 0
FloatMulGt(a, c10, b) ==
    \/ c10 * a > 10 * b
    \/ /\ c10 * a = 10 * b
       /\ b > 0
       /\ (c10 \div 11) * 4 * a > 5 * FloorPow2(b)

(***************************************************************************)
(* A correctly rounded quotient n/d (d > 0) of ints below 2^26 compares    *)
(* with the double nearest c100/100 as the exact fractions compare: equal  *)
(* fractions round to the same double, and unequal ones differ by at least *)
(* 1/(100 d), far more than the rounding error.                            *)
(***************************************************************************)
FloatDivLt(n, d, c100) == 100 * n < c100 * d

FloatDivGt(n, d, c100) == 100 * n > c100 * d

(***************************************************************************)
(* The double nearest 1.2 is 1.2 - 0.2 * 2^-52.  Ints a, b with 12a # 10b  *)
(* have a * 1.2 at least 0.2 away from b, far more than the rounding; on a *)
(* tie 12a = 10b the deficit 0.2a * 2^-52 is less than half an ulp below   *)
(* b, so the product rounds to b itself.  a * 1.2 < b is therefore the     *)
(* exact comparison.  (5 * 1.2 < 6 is False in Python.)                    *)
(***************************************************************************)
FloatMulLt(a, c10, b) == c10 * a < 10 * b

\* the comparison without abs()
guess_pages_width_ok_signed(actual_width, entire_width) ==
    ~ (entire_width - actual_width > 6)

\* the alignment precondition of guess_pages and guess_lines
guess_pages_width_ok(actual_width, entire_width) ==
    ~ (Abs(entire_width - actual_width) > 6)

\* the cut-points taken inclusive
guess_pages_inclusive(actual_width, actual_height, entire_width, entire_height) ==
    IF ~ guess_pages_width_ok(actual_width, entire_width)
    THEN Raise("CannotGuessError")
    ELSE IF 11 * actual_height >= 10 * entire_height THEN Return(1)
    ELSE IF 22 * actual_height >= 10 * entire_height THEN Return(2)
    ELSE Return(3)

guess_pages(actual_width, actual_height, entire_width, entire_height) ==
    IF ~ guess_pages_width_ok(actual_width, entire_width)
    THEN Raise("CannotGuessError")
    ELSE IF FloatMulGt(actual_height, 11, entire_height) THEN Return(1)
    ELSE IF FloatMulGt(actual_height, 22, entire_height) THEN Return(2)
    ELSE Return(3)

\* the second cut-point taken inclusive
guess_pagenum_inclusive(actual_x, actual_y, entire_x, entire_y, entire_height) ==
    IF Abs(actual_x - entire_x) > 5
    THEN Raise("CannotGuessError")
    ELSE IF entire_height = 0
    THEN Raise("ZeroDivisionError")
    ELSE LET delta == actual_y - entire_y
         IN  IF FloatDivLt(delta, entire_height, 10) THEN Return(1)
             ELSE IF ~ FloatDivGt(delta, entire_height, 52) THEN Return(2)
             ELSE Return(3)

\* the quotient taken upside down: entire_height / delta
guess_pagenum_swapped(actual_x, actual_y, entire_x, entire_y, entire_height) ==
    IF Abs(actual_x - entire_x) > 5
    THEN Raise("CannotGuessError")
    ELSE LET delta == actual_y - entire_y
         IN  IF delta = 0 THEN Raise("ZeroDivisionError")
             ELSE IF FloatDivLt(entire_height * delta, delta * delta, 10) THEN Return(1)
             ELSE IF FloatDivLt(entire_height * delta, delta * delta, 52) THEN Return(2)
             ELSE Return(3)

guess_pagenum(actual_x, actual_y, entire_x, entire_y, entire_height) ==
    IF Abs(actual_x - entire_x) > 5
    THEN Raise("CannotGuessError")
    ELSE IF entire_height = 0
    THEN Raise("ZeroDivisionError")
    ELSE LET delta == actual_y - entire_y
         IN  IF FloatDivLt(delta, entire_height, 10) THEN Return(1)
             ELSE IF FloatDivLt(delta, entire_height, 52) THEN Return(2)
             ELSE Return(3)

\* a tenth line count below the last cut-point
guess_lines_ten(actual_width, actual_height, entire_width, entire_height) ==
    IF ~ guess_pages_width_ok(actual_width, entire_width)
    THEN Raise("CannotGuessError")
    ELSE IF entire_height = 0
    THEN Raise("ZeroDivisionError")
    ELSE IF FloatDivGt(actual_height, entire_height, 90) THEN Return(3)
    ELSE IF FloatDivGt(actual_height, entire_height, 70) THEN Return(4)
    ELSE IF FloatDivGt(actual_height, entire_height, 57) THEN Return(5)
    ELSE IF FloatDivGt(actual_height, entire_height, 48) THEN Return(6)
    ELSE IF FloatDivGt(actual_height, entire_height, 40) THEN Return(7)
    ELSE IF FloatDivGt(actual_height, entire_height, 36) THEN Return(8)
    ELSE IF FloatDivGt(actual_height, entire_height, 30) THEN Return(9)
    ELSE Return(10)

\* the cut-points taken inclusive
guess_lines_inclusive(actual_width, actual_height, entire_width, entire_height) ==
    IF ~ guess_pages_width_ok(actual_width, entire_width)
    THEN Raise("CannotGuessError")
    ELSE IF entire_height = 0
    THEN Raise("ZeroDivisionError")
    ELSE IF ~ FloatDivLt(actual_height, entire_height, 90) THEN Return(3)
    ELSE IF ~ FloatDivLt(actual_height, entire_height, 70) THEN Return(4)
    ELSE IF ~ FloatDivLt(actual_height, entire_height, 57) THEN Return(5)
    ELSE IF ~ FloatDivLt(actual_height, entire_height, 48) THEN Return(6)
    ELSE IF ~ FloatDivLt(actual_height, entire_height, 40) THEN Return(7)
    ELSE IF ~ FloatDivLt(actual_height, entire_height, 36) THEN Return(8)
    ELSE Return(9)

guess_lines(actual_width, actual_height, entire_width, entire_height) ==
    IF ~ guess_pages_width_ok(actual_width, entire_width)
    THEN Raise("CannotGuessError")
    ELSE IF entire_height = 0
    THEN Raise("ZeroDivisionError")
    ELSE IF FloatDivGt(actual_height, entire_height, 90) THEN Return(3)
    ELSE IF FloatDivGt(actual_height, entire_height, 70) THEN Return(4)
    ELSE IF FloatDivGt(actual_height, entire_height, 57) THEN Return(5)
    ELSE IF FloatDivGt(actual_height, entire_height, 48) THEN Return(6)
    ELSE IF FloatDivGt(actual_height, entire_height, 40) THEN Return(7)
    ELSE IF FloatDivGt(actual_height, entire_height, 36) THEN Return(8)
    ELSE Return(9)

(***************************************************************************)
(* The image buffer.  What guess_pageinfo reads of an image is its shape   *)
(* and, in its rightmost quarter, the regions that the two binarizations   *)
(* separate.  The model's images hold, in that quarter, separate panels:   *)
(* a filled rectangle lo of pixels brighter than threshold_for_entire,     *)
(* holding a filled rectangle hi of pixels brighter than                   *)
(* threshold_for_actual (hi is lo itself, or lies at least two pixels      *)
(* inside it, or is empty: w = 0).  Coordinates are those of the crop.     *)
(***************************************************************************)
ImH == 100

ImW == 128

threshold_for_actual == 60

threshold_for_entire == 25

Rect(x, y, w, h) == [x |-> x, y |-> y, w |-> w, h |-> h]

NoRect == Rect(0, 0, 0, 0)

IsEmpty(r) == r.w <= 0 \/ r.h <= 0

Inside(r, s) ==
    /\ s.x <= r.x /\ r.x + r.w <= s.x + s.w
    /\ s.y <= r.y /\ r.y + r.h <= s.y + s.h

Intersect(r, s) ==
    LET x0 == Max(r.x, s.x)
        y0 == Max(r.y, s.y)
        x1 == Min(r.x + r.w, s.x + s.w)
        y1 == Min(r.y + r.h, s.y + s.h)
    IN  IF x1 <= x0 \/ y1 <= y0 THEN NoRect ELSE Rect(x0, y0, x1 - x0, y1 - y0)

BoxUnion(r, s) ==
    LET x0 == Min(r.x, s.x)
        y0 == Min(r.y, s.y)
        x1 == Max(r.x + r.w, s.x + s.w)
        y1 == Max(r.y + r.h, s.y + s.h)
    IN  Rect(x0, y0, x1 - x0, y1 - y0)

\* r grown by n pixels on every side (shrunk for n < 0)
Grow(r, n) == Rect(r.x - n, r.y - n, r.w + 2 * n, r.h + 2 * n)

\* im[0:im_h, int(im_w*3/4):im_w]: a view of the buffer, not a copy
Crop(image) ==
    LET im_h == image.shape[1]
        im_w == image.shape[2]
    IN  [shape |-> <<im_h, im_w - ((im_w * 3) \div 4)>>, roi |-> image.roi]

\* im[int(im_h/2):im_h, 0:int(im_w/2)]: the lower left quarter
QpCrop(image) ==
    LET im_h == image.shape[1]
        im_w == image.shape[2]
    IN  [shape |-> <<im_h - (im_h \div 2), im_w \div 2>>, roi |-> image.roi]

\* cv2.COLOR_BGR2GRAY of one pixel (b, g, r): 0.114 B + 0.587 G + 0.299 R, rounded
BGR2GRAY(bgr) == (114 * bgr[1] + 587 * bgr[2] + 299 * bgr[3] + 500) \div 1000

(***************************************************************************)
(* cv2.threshold + cv2.findContours + (later) cv2.boundingRect and         *)
(* cv2.contourArea: one contour per region brighter than the threshold,    *)
(* with its bounding box and the area of the polygon through its border    *)
(* pixels, (w-1)*(h-1) for a filled w x h rectangle.                       *)
(***************************************************************************)
Contour(r) == [x |-> r.x, y |-> r.y, w |-> r.w, h |-> r.h,
               area |-> (r.w - 1) * (r.h - 1)]

boundingRect(c) == Rect(c.x, c.y, c.w, c.h)

LevelRect(panel, binary_threshold) ==
    IF binary_threshold >= threshold_for_actual THEN panel.hi ELSE panel.lo

FindContours(gray, binary_threshold) ==
    LET rects == [i \in DOMAIN gray.roi |-> LevelRect(gray.roi[i], binary_threshold)]
        NonEmpty(r) == ~ IsEmpty(r)
        found == SelectSeq(rects, NonEmpty)
    IN  [i \in DOMAIN found |-> Contour(found[i])]

\* im.shape[:2] is (rows, columns): im_w receives the number of rows
filter_contour_qp(contour, image) ==
    LET im_w == image.shape[1]
        im_h == image.shape[2]
    IN  /\ ~ (contour.area * 25 < im_w * im_h)
        /\ ~ (contour.w < contour.h * 6)
        /\ FloatMulLt(contour.w, 12, im_w) /\ im_w < contour.w * 2

filter_contour_scrollbar(contour, image) ==
    LET im_w == image.shape[1]
        im_h == image.shape[2]
    IN  /\ ~ (contour.area * 80 < im_w * im_h)
        /\ ~ (contour.h < contour.w * 5)

\* the area gate taken strict
filter_contour_scrollable_area_strict(contour, image) ==
    LET im_w == image.shape[1]
        im_h == image.shape[2]
    IN  /\ contour.area * 50 > im_w * im_h
        /\ ~ (contour.h < contour.w * 10)

filter_contour_scrollable_area(contour, image) ==
    LET im_w == image.shape[1]
        im_h == image.shape[2]
    IN  /\ ~ (contour.area * 50 < im_w * im_h)
        /\ ~ (contour.h < contour.w * 10)

\* filter_func is the name of the filter passed
detect_scrollbar_region(image, binary_threshold, filter_func) ==
    LET Keep(c) == IF filter_func = "filter_contour_scrollbar"
                   THEN filter_contour_scrollbar(c, image)
                   ELSE filter_contour_scrollable_area(c, image)
    IN  SelectSeq(FindContours(image, binary_threshold), Keep)

(***************************************************************************)
(* cv2.drawContours(cropped, contours, -1, color, thickness) paints, for   *)
(* each contour, a band of the given thickness centred on the region's     *)
(* border pixels: for thickness 3, the border pixels and one pixel on      *)
(* either side, cut off at the edge of the crop.  cropped is a view, so    *)
(* the band lands in the caller's buffer.  At a threshold below the band's *)
(* gray value the band joins the region it surrounds, which grows by one   *)
(* pixel per side; at a threshold above it the band is background, and     *)
(* only the part of the region inside the band is left.  (The band's       *)
(* rounded corners are taken as square: the bounding box is exact, the     *)
(* area is over by at most the four corner pixels.)                        *)
(***************************************************************************)
Clip(r, shape) == Intersect(r, Rect(0, 0, shape[2], shape[1]))

PaintLevel(region, box, gray, binary_threshold, thickness, shape) ==
    LET half == (thickness - 1) \div 2
        outer == Clip(Grow(box, half), shape)
        inner == Grow(box, -(half + 1))
    IN  IF gray > binary_threshold
        THEN IF IsEmpty(region) THEN outer ELSE BoxUnion(region, outer)
        ELSE Intersect(region, inner)

drawContours(cropped, contours, color, thickness) ==
    LET gray == BGR2GRAY(color)
        Painted(panel) ==
            LET hits == {k \in DOMAIN contours :
                            Inside(boundingRect(contours[k]), panel.lo)}
            IN  IF hits = {} THEN panel
                ELSE LET box == boundingRect(contours[CHOOSE k \in hits : TRUE])
                     IN  [lo |-> PaintLevel(panel.lo, box, gray,
                                            threshold_for_entire, thickness,
                                            cropped.shape),
                          hi |-> PaintLevel(panel.hi, box, gray,
                                            threshold_for_actual, thickness,
                                            cropped.shape)]
    IN  [cropped EXCEPT !.roi = [i \in DOMAIN cropped.roi |-> Painted(cropped.roi[i])]]

\* the triple composed in call order, the page count first
Estimate_pages_first(actual_contours, entire_contours) ==
    LET asr == boundingRect(actual_contours[1])
        esr == boundingRect(entire_contours[1])
        pages == guess_pages(asr.w, asr.h, esr.w, esr.h)
        pagenum == guess_pagenum(asr.x, asr.y, esr.x, esr.y, esr.h)
        lines == guess_lines(asr.w, asr.h, esr.w, esr.h)
    IN  IF pages.kind # "return" THEN pages
        ELSE IF pagenum.kind # "return" THEN pagenum
        ELSE IF lines.kind # "return" THEN lines
        ELSE ReturnTuple(<<pages.val[1], pagenum.val[1], lines.val[1]>>)

\* lines 260-268: the estimators on the two bounding boxes, in call order
Estimate(actual_contours, entire_contours) ==
    LET asr == boundingRect(actual_contours[1])
        esr == boundingRect(entire_contours[1])
        pages == guess_pages(asr.w, asr.h, esr.w, esr.h)
        pagenum == guess_pagenum(asr.x, asr.y, esr.x, esr.y, esr.h)
        lines == guess_lines(asr.w, asr.h, esr.w, esr.h)
    IN  IF pages.kind # "return" THEN pages
        ELSE IF pagenum.kind # "return" THEN pagenum
        ELSE IF lines.kind # "return" THEN lines
        ELSE ReturnTuple(<<pagenum.val[1], pages.val[1], lines.val[1]>>)

(***************************************************************************)
(* guess_pageinfo, step by step.  Two calls are made in succession on the  *)
(* same buffer; log keeps for each the buffer it was given, its option and *)
(* its outcome.                                                            *)
(***************************************************************************)
Finish(outcome) ==
    /\ log' = [log EXCEPT ![Len(log)].outcome = outcome]
    /\ pc' = "idle"
    /\ call' = IF call = "first" THEN "second" ELSE "over"

\* lines 213-231: entry, crop, grayscale copy
Call(d) ==
    /\ pc = "idle"
    /\ call \in {"first", "second"}
    /\ debug_draw_image' = d
    /\ im_gray' = Crop(im)
    /\ actual_scrollbar_contours' = <<>>
    /\ scrollable_area_contours' = <<>>
    /\ scans' = <<>>
    /\ log' = Append(log, [im |-> im, debug_draw_image |-> d, outcome |-> None])
    /\ pc' = "detect_actual"
    /\ UNCHANGED <<Report, fn, args, ret, im, call, written>>

\* the track scan made before the thumb scan is checked for emptiness
DetectActual_both_scans ==
    /\ pc = "detect_actual"
    /\ LET found == detect_scrollbar_region(im_gray, threshold_for_actual,
                                             "filter_contour_scrollbar")
       IN  /\ actual_scrollbar_contours' = found
           /\ IF Len(found) = 0
              THEN /\ scans' = scans \o <<threshold_for_actual, threshold_for_entire>>
                   /\ Finish(ReturnTuple(NOSCROLL_PAGE_INFO))
              ELSE /\ scans' = Append(scans, threshold_for_actual)
                   /\ pc' = "detect_entire" /\ UNCHANGED <<log, call>>
    /\ UNCHANGED <<Report, fn, args, ret, im, debug_draw_image, im_gray,
                   scrollable_area_contours, written>>

\* lines 233-237
DetectActual ==
    /\ pc = "detect_actual"
    /\ LET found == detect_scrollbar_region(im_gray, threshold_for_actual,
                                             "filter_contour_scrollbar")
       IN  /\ actual_scrollbar_contours' = found
           /\ scans' = Append(scans, threshold_for_actual)
           /\ IF Len(found) = 0
              THEN Finish(ReturnTuple(NOSCROLL_PAGE_INFO))
              ELSE pc' = "detect_entire" /\ UNCHANGED <<log, call>>
    /\ UNCHANGED <<Report, fn, args, ret, im, debug_draw_image, im_gray,
                   scrollable_area_contours, written>>

\* an empty track scan reported as an error instead of the sentinel
DetectEntire_raising ==
    /\ pc = "detect_entire"
    /\ LET found == detect_scrollbar_region(im_gray, threshold_for_entire,
                                             "filter_contour_scrollable_area")
       IN  /\ scrollable_area_contours' = found
           /\ scans' = Append(scans, threshold_for_entire)
           /\ IF Len(found) = 0
              THEN Finish(Raise("CannotGuessError"))
              ELSE pc' = "debug_draw" /\ UNCHANGED <<log, call>>
    /\ UNCHANGED <<Report, fn, args, ret, im, debug_draw_image, im_gray,
                   actual_scrollbar_contours, written>>

\* lines 239-245
DetectEntire ==
    /\ pc = "detect_entire"
    /\ LET found == detect_scrollbar_region(im_gray, threshold_for_entire,
                                             "filter_contour_scrollable_area")
       IN  /\ scrollable_area_contours' = found
           /\ scans' = Append(scans, threshold_for_entire)
           /\ IF Len(found) = 0
              THEN Finish(ReturnTuple(NOSCROLL_PAGE_INFO))
              ELSE pc' = "debug_draw" /\ UNCHANGED <<log, call>>
    /\ UNCHANGED <<Report, fn, args, ret, im, debug_draw_image, im_gray,
                   actual_scrollbar_contours, written>>

\* lines 247-251; cv2.imwrite is handed the crop under the name the caller
\* chose (look_into_file passes one whenever it sets the option)
DebugDraw ==
    /\ pc = "debug_draw"
    /\ IF debug_draw_image
       THEN LET green == drawContours(Crop(im), actual_scrollbar_contours,
                                      <<0, 255, 0>>, 3)
                blue == drawContours(green, scrollable_area_contours,
                                     <<255, 0, 0>>, 3)
            IN  /\ im' = [im EXCEPT !.roi = blue.roi]
                /\ written' = Append(written, blue)
       ELSE UNCHANGED <<im, written>>
    /\ pc' = "check"
    /\ UNCHANGED <<Report, fn, args, ret, call, debug_draw_image, im_gray,
                   actual_scrollbar_contours, scrollable_area_contours, scans, log>>

\* the two checks indented under "if debug_draw_image:"
CheckAreas_indented ==
    /\ pc = "check"
    /\ IF debug_draw_image /\ Len(actual_scrollbar_contours) > 1
       THEN Finish(Raise("TooManyAreasDetectedError"))
       ELSE IF debug_draw_image /\ Len(scrollable_area_contours) > 1
       THEN Finish(Raise("TooManyAreasDetectedError"))
       ELSE pc' = "estimate" /\ UNCHANGED <<log, call>>
    /\ UNCHANGED <<Report, fn, args, ret, im, debug_draw_image, im_gray,
                   actual_scrollbar_contours, scrollable_area_contours, scans, written>>

\* the check of the track candidates left out
CheckAreas_thumb_only ==
    /\ pc = "check"
    /\ IF Len(actual_scrollbar_contours) > 1
       THEN Finish(Raise("TooManyAreasDetectedError"))
       ELSE pc' = "estimate" /\ UNCHANGED <<log, call>>
    /\ UNCHANGED <<Report, fn, args, ret, im, debug_draw_image, im_gray,
                   actual_scrollbar_contours, scrollable_area_contours, scans, written>>

\* lines 253-258
CheckAreas ==
    /\ pc = "check"
    /\ IF Len(actual_scrollbar_contours) > 1
       THEN Finish(Raise("TooManyAreasDetectedError"))
       ELSE IF Len(scrollable_area_contours) > 1
       THEN Finish(Raise("TooManyAreasDetectedError"))
       ELSE pc' = "estimate" /\ UNCHANGED <<log, call>>
    /\ UNCHANGED <<Report, fn, args, ret, im, debug_draw_image, im_gray,
                   actual_scrollbar_contours, scrollable_area_contours, scans, written>>

\* lines 260-268
Compose ==
    /\ pc = "estimate"
    /\ Finish(Estimate(actual_scrollbar_contours, scrollable_area_contours))
    /\ UNCHANGED <<Report, fn, args, ret, im, debug_draw_image, im_gray,
                   actual_scrollbar_contours, scrollable_area_contours, scans, written>>

(***************************************************************************)
(* The images the calls are made on: up to two panels, side by side and    *)
(* far enough apart that the overlays of two calls do not join them.       *)
(***************************************************************************)
LoRects == {Rect(x, y, w, h) : x \in {0, 13}, y \in {0, 1},
                               w \in {4, 8, 15}, h \in {30, 70, 96}}

HiRects(lo) ==
    {NoRect, lo} \cup
    {r \in {Rect(lo.x + 2, lo.y + 2 + dy, lo.w - 4, h) :
                dy \in {0, 8, 48}, h \in {26, 44, 88}} :
        ~ IsEmpty(r) /\ Inside(r, Grow(lo, -2))}

\* a track nine pixels wide holding a thumb two pixels wide
NarrowThumbPanels ==
    {p \in {[lo |-> Rect(x, y, 9, 96), hi |-> Rect(x + 3, y + 2 + dy, 2, h)] :
                x \in {0, 13}, y \in {0, 1}, dy \in {0, 48}, h \in {44, 88}} :
        Inside(p.hi, Grow(p.lo, -2))}

Panels == UNION {{[lo |-> lo, hi |-> hi] : hi \in HiRects(lo)} : lo \in LoRects}
          \cup NarrowThumbPanels

\* each of two overlays grows both neighbours by a pixel; one pixel stays between
MinGap == 2 * 2 + 1

Apart(p, q) == p.lo.x + p.lo.w + MinGap <= q.lo.x

Images ==
    LET shape == <<ImH, ImW>>
        Fits(p) == Inside(p.lo, Rect(0, 0, Crop([shape |-> shape, roi |-> <<>>]).shape[2], ImH))
        Rois == {<<>>} \cup {<<p>> : p \in {q \in Panels : Fits(q)}}
                \cup {<<p, q>> : p \in {r \in Panels : Fits(r) /\ r.lo.x = 0},
                                 q \in {r \in Panels : Fits(r) /\ r.lo.x # 0}}
    IN  {[shape |-> shape, roi |-> roi] :
            roi \in {r \in Rois : Len(r) < 2 \/ Apart(r[1], r[2])}}

NoImage == [shape |-> <<0, 0>>, roi |-> <<>>]

Init ==
    /\ fn = "none" /\ args = <<>> /\ ret = None
    /\ im \in Images
    /\ call = "first"
    /\ pc = "idle"
    /\ debug_draw_image = FALSE
    /\ im_gray = NoImage
    /\ actual_scrollbar_contours = <<>>
    /\ scrollable_area_contours = <<>>
    /\ scans = <<>>
    /\ log = <<>>
    /\ written = <<>>
    /\ MainIdle

Next ==
    \/ \E d \in BOOLEAN : Call(d)
    \/ DetectActual
    \/ DetectEntire
    \/ DebugDraw
    \/ CheckAreas
    \/ Compose

Spec == Init /\ [][Next]_vars

(***************************************************************************)
(* The estimators called directly, on bounded ints.                        *)
(***************************************************************************)
MaxWidth == 7

MaxHeight == 56

MaxY == 15

MaxEntireY == 2

HeightArgs == {<<aw, ah, ew, eh>> : aw \in 0..MaxWidth, ah \in 0..MaxHeight,
                                    ew \in {0, MaxWidth}, eh \in 0..MaxHeight}

PagenumArgs == {<<ax, ay, ex, ey, eh>> : ax \in 0..MaxWidth, ay \in 0..MaxY,
                                         ex \in {0, MaxWidth}, ey \in 0..MaxEntireY,
                                         eh \in 0..MaxHeight}

(***************************************************************************)
(* The filters called directly, on a contour and a grayscale crop.  The    *)
(* crops are those guess_pageinfo and detect_qp_region cut from two        *)
(* screens; the contours are tall or wide boxes whose contourArea is       *)
(* anything up to that of the filled box.                                  *)
(***************************************************************************)
QpImH == 60

QpImW == 112

MaxContourW == 7

MaxContourH == 66

FilterCrops ==
    LET Screens == {[shape |-> <<ImH, ImW>>, roi |-> <<>>],
                    [shape |-> <<QpImH, QpImW>>, roi |-> <<>>]}
    IN  {Crop(screen) : screen \in Screens} \cup {QpCrop(screen) : screen \in Screens}

FilterContours ==
    LET Boxes == {Rect(0, 0, w, h) : w \in 1..MaxContourW, h \in 1..MaxContourH}
                 \cup {Rect(0, 0, w, h) : w \in 1..MaxContourH, h \in 1..MaxContourW}
        Areas(box) == {0, Contour(box).area \div 2, Contour(box).area}
    IN  UNION {{[Contour(box) EXCEPT !.area = a] : a \in Areas(box)} : box \in Boxes}

FilterArgs == {<<contour, crop>> : contour \in FilterContours, crop \in FilterCrops}

\* heights out of a hundred: every two-digit cut-point is met exactly
PercentArgs == {<<aw, ah, ew, 100>> : aw \in 0..MaxWidth, ah \in 0..100,
                                      ew \in {0, MaxWidth}}

PureInit ==
    /\ fn = "none" /\ ret = None
    /\ args \in HeightArgs \cup PercentArgs \cup PagenumArgs \cup FilterArgs
    /\ im = NoImage
    /\ call = "over"
    /\ pc = "idle"
    /\ debug_draw_image = FALSE
    /\ im_gray = NoImage
    /\ actual_scrollbar_contours = <<>>
    /\ scrollable_area_contours = <<>>
    /\ scans = <<>>
    /\ log = <<>>
    /\ written = <<>>
    /\ MainIdle

Pipeline == <<im, call, pc, debug_draw_image, im_gray, actual_scrollbar_contours,
              scrollable_area_contours, scans, log, written>>

CallGuessPages ==
    /\ fn = "none" /\ Len(args) = 4
    /\ fn' = "guess_pages"
    /\ ret' = guess_pages(args[1], args[2], args[3], args[4])
    /\ UNCHANGED <<args, Pipeline, Report>>

CallGuessLines ==
    /\ fn = "none" /\ Len(args) = 4
    /\ fn' = "guess_lines"
    /\ ret' = guess_lines(args[1], args[2], args[3], args[4])
    /\ UNCHANGED <<args, Pipeline, Report>>

CallGuessPagenum ==
    /\ fn = "none" /\ Len(args) = 5
    /\ fn' = "guess_pagenum"
    /\ ret' = guess_pagenum(args[1], args[2], args[3], args[4], args[5])
    /\ UNCHANGED <<args, Pipeline, Report>>

CallFilterQp ==
    /\ fn = "none" /\ Len(args) = 2
    /\ fn' = "filter_contour_qp"
    /\ ret' = Return(filter_contour_qp(args[1], args[2]))
    /\ UNCHANGED <<args, Pipeline, Report>>

CallFilterScrollbar ==
    /\ fn = "none" /\ Len(args) = 2
    /\ fn' = "filter_contour_scrollbar"
    /\ ret' = Return(filter_contour_scrollbar(args[1], args[2]))
    /\ UNCHANGED <<args, Pipeline, Report>>

CallFilterScrollableArea ==
    /\ fn = "none" /\ Len(args) = 2
    /\ fn' = "filter_contour_scrollable_area"
    /\ ret' = Return(filter_contour_scrollable_area(args[1], args[2]))
    /\ UNCHANGED <<args, Pipeline, Report>>

PureNext ==
    \/ CallGuessPages
    \/ CallGuessLines
    \/ CallGuessPagenum
    \/ CallFilterQp
    \/ CallFilterScrollbar
    \/ CallFilterScrollableArea

PureSpec == PureInit /\ [][PureNext]_vars

(***************************************************************************)
(* csv2report.main.  A text is a sequence of one-character strings, a CSV  *)
(* row a sequence of texts.  Index k here is Python's index k - 1.         *)
(***************************************************************************)
Digits == <<"0", "1", "2", "3", "4", "5", "6", "7", "8", "9">>

IsDigit(c) == \E d \in DOMAIN Digits : Digits[d] = c

DigitValue(c) == (CHOOSE d \in DOMAIN Digits : Digits[d] = c) - 1

\* whether int(col) returns (col a text of decimal digits) or raises ValueError
IsInt(col) == col # <<>> /\ \A k \in DOMAIN col : IsDigit(col[k])

RECURSIVE int(_)
int(col) ==
    IF Len(col) = 1 THEN DigitValue(col[1])
    ELSE 10 * int(SubSeq(col, 1, Len(col) - 1)) + DigitValue(col[Len(col)])

RECURSIVE str(_)
str(n) ==
    IF n < 10 THEN <<Digits[n + 1]>>
    ELSE str(n \div 10) \o <<Digits[(n % 10) + 1]>>

startswith(name, prefix) ==
    Len(name) >= Len(prefix) /\ SubSeq(name, 1, Len(prefix)) = prefix

RECURSIVE join(_, _)
join(sep, texts) ==
    IF texts = <<>> THEN <<>>
    ELSE IF Len(texts) = 1 THEN texts[1]
    ELSE texts[1] \o sep \o join(sep, Tail(texts))

item0 == <<"i", "t", "e", "m", "0">>

missing == <<"m", "i", "s", "s", "i", "n", "g">>

twenty_plus == <<"2", "0", "+">>

Record(level, msg, at, detail) ==
    [level |-> level, msg |-> msg, at |-> at, detail |-> detail]

\* lines 48-63
Main_Start ==
    /\ main_pc = "start"
    /\ header' = reader[1]
    /\ summary' = reader[2]
    /\ reader' = SubSeq(reader, 3, Len(reader))
    /\ LET Unnamed(name) == startswith(name, item0)
           unnamed_items == SelectSeq(reader[1], Unnamed)
       IN  IF unnamed_items # <<>>
           THEN /\ records' = records \o <<Record("ERROR", "name the unnamed items", 0, <<>>),
                                            Record("ERROR", "unnamed_items", 0, unnamed_items)>>
                /\ main_ret' = Return(None)
                /\ main_pc' = "over"
                /\ UNCHANGED <<actual_summary, rounds, has_migging_rows>>
           ELSE /\ actual_summary' = [k \in DOMAIN reader[1] |-> 0]
                /\ rounds' = 0
                /\ has_migging_rows' = FALSE
                /\ main_pc' = "rows"
                /\ UNCHANGED <<records, main_ret>>
    /\ UNCHANGED <<input, row_i, output, fn, args, ret, Pipeline>>

\* lines 66-80, one turn of the loop; int() stops the loop at the first cell
\* it cannot read, with the cells before it already added
Main_Row ==
    /\ main_pc = "rows"
    /\ reader # <<>>
    /\ reader' = Tail(reader)
    /\ row_i' = row_i + 1
    /\ LET row == reader[1]
           unread == {j \in 3..Len(row) : row[j] # <<>> /\ ~ IsInt(row[j])}
           stop == IF unread = {} THEN Len(row) + 1
                   ELSE CHOOSE j \in unread : \A k \in unread : j <= k
       IN  IF row[1] = missing
           THEN /\ records' = Append(records, Record("ERROR", "missing", row_i' + 1, <<>>))
                /\ has_migging_rows' = TRUE
                /\ UNCHANGED <<actual_summary, rounds, main_pc, main_ret>>
           ELSE /\ rounds' = IF row[2] = twenty_plus THEN rounds ELSE rounds + 1
                /\ actual_summary' =
                       [k \in DOMAIN actual_summary |->
                           IF k \in 3..Len(row) /\ k < stop /\ row[k] # <<>>
                           THEN actual_summary[k] + int(row[k])
                           ELSE actual_summary[k]]
                /\ IF unread = {}
                   THEN UNCHANGED <<main_pc, main_ret>>
                   ELSE main_ret' = Raise("ValueError") /\ main_pc' = "over"
                /\ UNCHANGED <<records, has_migging_rows>>
    /\ UNCHANGED <<input, header, summary, output, fn, args, ret, Pipeline>>

\* lines 83-85: range(2, len(summary[2:])) is Python's 2 .. len(summary) - 3
Main_Verify ==
    /\ main_pc = "rows"
    /\ reader = <<>>
    /\ LET columns == [n \in 1..(Len(summary) - 2 - 2) |-> n + 2]
           Differs(k) == summary[k] # str(actual_summary[k])
           differing == SelectSeq(columns, Differs)
       IN  records' = records \o
               [n \in DOMAIN differing |->
                   Record("WARNING", header[differing[n]], differing[n],
                          <<summary[differing[n]], actual_summary[differing[n]]>>)]
    /\ main_pc' = "report"
    /\ UNCHANGED <<input, reader, header, summary, actual_summary, rounds,
                   has_migging_rows, row_i, output, main_ret, fn, args, ret, Pipeline>>

\* lines 93-110: the report text.  The three patterns match runs of names
\* made of a class character and a piece or stone character, or of the form
\* QP(+n); where none occurs the text is written as joined.
FGO_COUNTER_FORMAT(place, n, report) ==
    [place |-> place, rounds |-> n, report |-> report]

\* the report written although rows are missing
Main_Report_regardless ==
    /\ main_pc = "report"
    /\ LET columns == [n \in 1..(Len(header) - 3) |-> n + 3]
           report == join(<<"-">>, [n \in DOMAIN columns |->
                         header[columns[n]] \o str(actual_summary[columns[n]])])
       IN  /\ output' = Append(output, FGO_COUNTER_FORMAT("place", rounds, report))
           /\ UNCHANGED records
    /\ main_ret' = Return(None)
    /\ main_pc' = "over"
    /\ UNCHANGED <<input, reader, header, summary, actual_summary, rounds,
                   has_migging_rows, row_i, fn, args, ret, Pipeline>>

\* lines 87-110
Main_Report ==
    /\ main_pc = "report"
    /\ LET columns == [n \in 1..(Len(header) - 3) |-> n + 3]
           report == join(<<"-">>, [n \in DOMAIN columns |->
                         header[columns[n]] \o str(actual_summary[columns[n]])])
       IN  IF has_migging_rows
           THEN /\ records' = Append(records,
                                     Record("ERROR", "resolve the missing rows", 0, <<>>))
                /\ UNCHANGED output
           ELSE /\ output' = Append(output, FGO_COUNTER_FORMAT("place", rounds, report))
                /\ UNCHANGED records
    /\ main_ret' = Return(None)
    /\ main_pc' = "over"
    /\ UNCHANGED <<input, reader, header, summary, actual_summary, rounds,
                   has_migging_rows, row_i, fn, args, ret, Pipeline>>

(***************************************************************************)
(* The CSV files main is run on: a header of two leading columns and three *)
(* item columns, a summary row, and detail rows of the same width.         *)
(***************************************************************************)
MaxRows == 2

Headers ==
    LET filename == <<"f", "i", "l", "e">>
        drops == <<"d", "r", "o", "p">>
    IN  {<<filename, drops, <<"A">>, name, <<"C">>>> :
            name \in {<<"B">>, item0 \o <<"0", "1">>, <<"i", "t", "e", "m", "1">>}}

SummaryRows ==
    LET Totals == {str(0), str(1), str(2)}
    IN  {<<<<"s", "u", "m">>, <<>>, a, b, c>> : a \in Totals, b \in Totals, c \in Totals}

DetailRows ==
    LET Cells == {<<str(1), <<>>, str(2)>>,
                  <<<<>>, str(1), <<>>>>,
                  <<str(1), <<"x">>, str(1)>>}
    IN  {<<name, count>> \o cells :
            name \in {<<"a">>, missing}, count \in {str(3), twenty_plus}, cells \in Cells}

Inputs ==
    {<<h, s>> \o rows : h \in Headers, s \in SummaryRows,
                        rows \in UNION {[1..n -> DetailRows] : n \in 0..MaxRows}}

CsvInit ==
    /\ input \in Inputs
    /\ reader = input
    /\ header = <<>> /\ summary = <<>>
    /\ actual_summary = <<>> /\ rounds = 0
    /\ has_migging_rows = FALSE
    /\ row_i = -1
    /\ records = <<>> /\ output = <<>>
    /\ main_pc = "start" /\ main_ret = None
    /\ fn = "none" /\ args = <<>> /\ ret = None
    /\ im = NoImage
    /\ call = "over"
    /\ pc = "idle"
    /\ debug_draw_image = FALSE
    /\ im_gray = NoImage
    /\ actual_scrollbar_contours = <<>>
    /\ scrollable_area_contours = <<>>
    /\ scans = <<>>
    /\ log = <<>>
    /\ written = <<>>

CsvNext ==
    \/ Main_Start
    \/ Main_Row
    \/ Main_Verify
    \/ Main_Report

CsvSpec == CsvInit /\ [][CsvNext]_vars

(***************************************************************************)
(* Properties.                                                             *)
(***************************************************************************)
\* what the two scans of guess_pageinfo yield on an image
ThumbScan(image) ==
    detect_scrollbar_region(Crop(image), threshold_for_actual,
                            "filter_contour_scrollbar")

TrackScan(image) ==
    detect_scrollbar_region(Crop(image), threshold_for_entire,
                            "filter_contour_scrollable_area")

Finished == {i \in DOMAIN log : log[i].outcome # None}

Sentinel == ReturnTuple(<<1, 1, 0>>)

\* C1: a call on an image whose thumb scan or whose track scan yields no
\* candidate returns exactly (1, 1, 0) and raises nothing, whatever the other
\* scan yields.
C1_NoScrollbarSentinel ==
    \A i \in Finished :
        (Len(ThumbScan(log[i].im)) = 0 \/ Len(TrackScan(log[i].im)) = 0)
            => log[i].outcome = Sentinel

C1_Witness ==
    \E i \in Finished :
        /\ Len(ThumbScan(log[i].im)) > 1
        /\ Len(TrackScan(log[i].im)) = 0
        /\ log[i].outcome = Sentinel

\* C2: every returned triple has currentPage <= totalPages.
C2_CurrentPageAtMostTotal ==
    \A i \in Finished :
        log[i].outcome.kind = "return" => log[i].outcome.val[1] <= log[i].outcome.val[2]

\* C3 as stated: more than one candidate in either scan always ends in
\* TooManyAreasDetectedError.
C3_AnyAmbiguityRaises ==
    \A i \in Finished :
        (Len(ThumbScan(log[i].im)) > 1 \/ Len(TrackScan(log[i].im)) > 1)
            => log[i].outcome = Raise("TooManyAreasDetectedError")

\* C3 amended: when both scans yield at least one candidate and one of them
\* yields more than one, the call ends in TooManyAreasDetectedError and
\* returns no triple.
C3_AmbiguityRaisesWhenBothFound ==
    \A i \in Finished :
        LET nt == Len(ThumbScan(log[i].im))
            ne == Len(TrackScan(log[i].im))
        IN  (nt >= 1 /\ ne >= 1 /\ (nt > 1 \/ ne > 1))
                => log[i].outcome = Raise("TooManyAreasDetectedError")

C3_Witness ==
    \E i \in Finished :
        /\ Len(ThumbScan(log[i].im)) = 1
        /\ Len(TrackScan(log[i].im)) > 1
        /\ log[i].outcome = Raise("TooManyAreasDetectedError")

\* C4: guess_pages and guess_lines raise CannotGuessError exactly when
\* |entire_width - actual_width| > 6, and guess_pagenum exactly when
\* |actual_x - entire_x| > 5; with a difference of 6 (resp. 5) they do not.
C4_RaisesIffMisaligned ==
    /\ fn \in {"guess_pages", "guess_lines"} =>
          ((ret.kind = "CannotGuessError") <=>
              (args[3] - args[1] > 6 \/ args[1] - args[3] > 6))
    /\ fn = "guess_pagenum" =>
          ((ret.kind = "CannotGuessError") <=>
              (args[1] - args[3] > 5 \/ args[3] - args[1] > 5))

C4_Witness ==
    /\ fn = "guess_lines"
    /\ args[1] - args[3] = 7
    /\ ret = Raise("CannotGuessError")

C6_SecondCallAgrees ==
    (Finished = {1, 2}) => log[1].outcome = log[2].outcome

C8_TripleRanges ==
    \A i \in Finished :
        log[i].outcome.kind = "return" =>
            LET t == log[i].outcome.val
                none == Len(ThumbScan(log[i].im)) = 0 \/ Len(TrackScan(log[i].im)) = 0
            IN  /\ t[1] \in 1..3
                /\ t[2] \in 1..3
                /\ t[3] \in {0} \cup 3..9
                /\ (t[3] = 0) <=> none
                /\ none => t = <<1, 1, 0>>

C8_Witness ==
    \E i \in Finished :
        /\ log[i].outcome.kind = "return"
        /\ log[i].outcome.val[3] = 9
        /\ log[i].outcome.val[2] = 3

\* C9 as stated: with the widths within 6, guess_pages returns 1 if
\* actual_height * 1.1 > entire_height, else 2 if actual_height * 2.2 >
\* entire_height, else 3, the products being those of the numbers.
C9_GuessPagesCutPoints ==
    (fn = "guess_pages" /\ args[3] - args[1] <= 6 /\ args[1] - args[3] <= 6) =>
        ret = Return(IF 11 * args[2] > 10 * args[4] THEN 1
                     ELSE IF 22 * args[2] > 10 * args[4] THEN 2
                     ELSE 3)

\* C9 amended: with the widths within 6, guess_pages returns 1, 2 or 3 by
\* those cut-points, the products being double-precision products: the
\* result is that of the exact products except on an exact tie
\* (actual_height * 1.1 or * 2.2 equal to entire_height), where the rounded
\* product may exceed entire_height and the smaller count is returned.
\* Heights (50,55) give 1 and (25,55) give 2, while (10,11) give 2 and (5,11)
\* give 3; (11,10) give 1, (6,10) give 2, (3,10) give 3.
C9_GuessPagesDoubleCutPoints ==
    (fn = "guess_pages" /\ args[3] - args[1] <= 6 /\ args[1] - args[3] <= 6) =>
        LET ah == args[2]
            eh == args[4]
            exact == IF 11 * ah > 10 * eh THEN 1
                     ELSE IF 22 * ah > 10 * eh THEN 2
                     ELSE 3
            tie == 11 * ah = 10 * eh \/ 22 * ah = 10 * eh
        IN  /\ ret.kind = "return"
            /\ ret.val[1] \in 1..3
            /\ ~ tie => ret.val[1] = exact
            /\ tie => ret.val[1] \in {exact - 1, exact}
            /\ <<ah, eh>> = <<50, 55>> => ret.val[1] = 1
            /\ <<ah, eh>> = <<25, 55>> => ret.val[1] = 2
            /\ <<ah, eh>> = <<10, 11>> => ret.val[1] = 2
            /\ <<ah, eh>> = <<5, 11>> => ret.val[1] = 3
            /\ <<ah, eh>> = <<11, 10>> => ret.val[1] = 1
            /\ <<ah, eh>> = <<6, 10>> => ret.val[1] = 2
            /\ <<ah, eh>> = <<3, 10>> => ret.val[1] = 3

C9_Witness ==
    /\ fn = "guess_pages"
    /\ args[1] - args[3] = 6
    /\ <<args[2], args[4]>> = <<50, 55>>
    /\ ret = Return(1)

\* C10: with the x offsets within 5 and entire_height > 0, guess_pagenum
\* returns 1 if (actual_y - entire_y) / entire_height < 0.10, else 2 if it is
\* < 0.52, else 3: offset 0 gives 1, a ratio of exactly 0.10 gives 2 and of
\* exactly 0.52 gives 3.
C10_GuessPagenumCutPoints ==
    (fn = "guess_pagenum" /\ args[1] - args[3] <= 5 /\ args[3] - args[1] <= 5
        /\ args[5] > 0) =>
        LET delta == args[2] - args[4]
            entire_height == args[5]
        IN  /\ ret = Return(IF 10 * delta < entire_height THEN 1
                            ELSE IF 25 * delta < 13 * entire_height THEN 2
                            ELSE 3)
            /\ delta = 0 => ret = Return(1)
            /\ 10 * delta = entire_height => ret = Return(2)
            /\ 25 * delta = 13 * entire_height => ret = Return(3)

C10_Witness ==
    /\ fn = "guess_pagenum"
    /\ args[5] > 0
    /\ 25 * (args[2] - args[4]) = 13 * args[5]
    /\ ret = Return(3)

\* C11: with the widths within 6 and entire_height > 0, guess_lines returns
\* 3 if actual_height / entire_height > 0.90, else 4 if > 0.70, 5 if > 0.57,
\* 6 if > 0.48, 7 if > 0.40, 8 if > 0.36, else 9 (a ratio equal to a
\* cut-point falls below it); the result lies in 3..9 and no pair of heights
\* with a larger ratio gives more lines.
C11_GuessLinesTable ==
    (fn = "guess_lines" /\ args[3] - args[1] <= 6 /\ args[1] - args[3] <= 6
        /\ args[4] > 0) =>
        LET ah == args[2]
            eh == args[4]
        IN  /\ ret = Return(IF 10 * ah > 9 * eh THEN 3
                            ELSE IF 10 * ah > 7 * eh THEN 4
                            ELSE IF 100 * ah > 57 * eh THEN 5
                            ELSE IF 25 * ah > 12 * eh THEN 6
                            ELSE IF 5 * ah > 2 * eh THEN 7
                            ELSE IF 25 * ah > 9 * eh THEN 8
                            ELSE 9)
            /\ ret.val[1] \in 3..9
            /\ \A a2 \in 0..MaxHeight, e2 \in {eh, MaxHeight} :
                   a2 * eh >= ah * e2 =>
                       guess_lines(args[1], a2, args[3], e2).val[1] <= ret.val[1]

C11_Witness ==
    /\ fn = "guess_lines"
    /\ args[1] - args[3] = 6
    /\ <<args[2], args[4]>> = <<57, 100>>
    /\ ret = Return(6)

\* C12: the thumb filter accepts a contour exactly when area * 80 >=
\* imageArea and height >= width * 5, and the track filter exactly when
\* area * 50 >= imageArea and height >= width * 10, imageArea being rows
\* times columns of the crop; an accepted track is at least 10 pixels high.
C12_ScrollbarFilters ==
    LET contour == args[1]
        imageArea == args[2].shape[1] * args[2].shape[2]
    IN  /\ fn = "filter_contour_scrollbar" =>
              ret = Return(contour.area * 80 >= imageArea
                           /\ contour.h >= contour.w * 5)
        /\ fn = "filter_contour_scrollable_area" =>
              /\ ret = Return(contour.area * 50 >= imageArea
                              /\ contour.h >= contour.w * 10)
              /\ ret = Return(TRUE) => contour.h >= 10

C12_Witness ==
    /\ fn = "filter_contour_scrollable_area"
    /\ args[1].area * 50 = args[2].shape[1] * args[2].shape[2]
    /\ args[1].h < args[1].w * 40
    /\ ret = Return(TRUE)

\* C13: the currency filter accepts a contour exactly when area * 25 >=
\* imageArea, width >= height * 6 and width * 1.2 < imageWidth < width * 2,
\* imageWidth being the number of columns of the crop.
C13_QpFilterUsesCropWidth ==
    fn = "filter_contour_qp" =>
        LET contour == args[1]
            imageHeight == args[2].shape[1]
            imageWidth == args[2].shape[2]
        IN  ret = Return(/\ contour.area * 25 >= imageWidth * imageHeight
                         /\ contour.w >= contour.h * 6
                         /\ 12 * contour.w < 10 * imageWidth
                         /\ imageWidth < contour.w * 2)

\* what the input file holds
HasUnnamedItem == \E k \in DOMAIN input[1] : startswith(input[1][k], item0)

MissingRows == {n \in 3..Len(input) : input[n][1] = missing}

\* C14: main writes nothing to the output when the header holds a name
\* starting with item0 or when some detail row is a missing row; the report
\* is written, once, only when neither is the case.
C14_NoReportOnUnnamedOrMissing ==
    /\ (HasUnnamedItem \/ MissingRows # {}) => output = <<>>
    /\ Len(output) <= 1
    /\ output # <<>> => (main_pc = "over" /\ main_ret = Return(None))

C14_Witness ==
    /\ main_pc = "over"
    /\ main_ret = Return(None)
    /\ ~ HasUnnamedItem
    /\ Len(input) = 2 + 2
    /\ MissingRows = {Len(input)}
    /\ rounds = 1
    /\ output = <<>>

\* the sum of column k over the detail rows that are not missing rows
RECURSIVE ColumnSum(_, _)
ColumnSum(rows, k) ==
    IF rows = <<>> THEN 0
    ELSE (IF rows[1][1] # missing /\ IsInt(rows[1][k]) THEN int(rows[1][k]) ELSE 0)
         + ColumnSum(Tail(rows), k)

\* C15: once main has compared the summary row with its own totals, there is
\* a WARNING for every item column (the third column onward, the last ones
\* included) whose summary value differs from the sum of that column over
\* the detail rows that are not missing rows.
C15_WarnsOnEveryMismatch ==
    (main_pc = "report" \/ (main_pc = "over" /\ main_ret = Return(None)
                                /\ ~ HasUnnamedItem)) =>
        \A k \in 3..Len(input[2]) :
            input[2][k] # str(ColumnSum(SubSeq(input, 3, Len(input)), k)) =>
                \E n \in DOMAIN records :
                    records[n].level = "WARNING" /\ records[n].at = k

\* C16: a call on an image whose two scans yield one candidate each ends in
\* CannotGuessError exactly when the widths of the two bounding boxes differ
\* by more than 6 or their x by more than 5, and otherwise returns
\* (guess_pagenum, guess_pages, guess_lines) of those two boxes in that
\* order; in no other case is an estimator reached.
C16_ComposesEstimators ==
    /\ \A n \in Finished :
          LET thumbs == ThumbScan(log[n].im)
              tracks == TrackScan(log[n].im)
          IN  (Len(thumbs) = 1 /\ Len(tracks) = 1) =>
                  LET thumb == boundingRect(thumbs[1])
                      track == boundingRect(tracks[1])
                      mismatch == \/ Abs(track.w - thumb.w) > 6
                                  \/ Abs(thumb.x - track.x) > 5
                  IN  /\ (log[n].outcome = Raise("CannotGuessError")) <=> mismatch
                      /\ ~ mismatch =>
                            log[n].outcome = ReturnTuple(
                                <<guess_pagenum(thumb.x, thumb.y, track.x, track.y,
                                                track.h).val[1],
                                  guess_pages(thumb.w, thumb.h, track.w, track.h).val[1],
                                  guess_lines(thumb.w, thumb.h, track.w, track.h).val[1]>>)
    /\ pc = "estimate" =>
          LET given == log[Len(log)].im
          IN  Len(ThumbScan(given)) = 1 /\ Len(TrackScan(given)) = 1

C16_Witness ==
    \E n \in Finished :
        /\ Len(ThumbScan(log[n].im)) = 1
        /\ Len(TrackScan(log[n].im)) = 1
        /\ Abs(TrackScan(log[n].im)[1].w - ThumbScan(log[n].im)[1].w) > 6
        /\ Abs(ThumbScan(log[n].im)[1].x - TrackScan(log[n].im)[1].x) <= 5
        /\ log[n].outcome = Raise("CannotGuessError")

\* C17: a call scans for the thumb, returns if there is none, only then
\* scans for the track, returns if there is none, and only then looks for
\* more than one candidate.  So the track scan is not made when the thumb
\* scan is empty; TooManyAreasDetectedError is raised exactly when both
\* scans yield a candidate and one of them yields two or more; several
\* thumbs with no track give (1, 1, 0).
C17_OrderOfChecks ==
    /\ scans \in {<<>>, <<threshold_for_actual>>,
                  <<threshold_for_actual, threshold_for_entire>>}
    /\ pc = "detect_entire" =>
          scans = <<threshold_for_actual>> /\ Len(actual_scrollbar_contours) >= 1
    /\ pc \in {"debug_draw", "check", "estimate"} =>
          /\ scans = <<threshold_for_actual, threshold_for_entire>>
          /\ Len(actual_scrollbar_contours) >= 1
          /\ Len(scrollable_area_contours) >= 1
    /\ (pc = "idle" /\ log # <<>>) =>
          (scans = <<threshold_for_actual>>) <=> (actual_scrollbar_contours = <<>>)
    /\ \A n \in Finished :
          LET nt == Len(ThumbScan(log[n].im))
              ne == Len(TrackScan(log[n].im))
          IN  /\ (log[n].outcome = Raise("TooManyAreasDetectedError")) <=>
                     (nt >= 1 /\ ne >= 1 /\ (nt >= 2 \/ ne >= 2))
              /\ (nt >= 2 /\ ne = 0) => log[n].outcome = Sentinel

C17_Witness ==
    /\ pc = "idle"
    /\ log # <<>>
    /\ Len(ThumbScan(log[Len(log)].im)) = 0
    /\ Len(TrackScan(log[Len(log)].im)) = 2
    /\ scans = <<threshold_for_actual>>
    /\ log[Len(log)].outcome = Sentinel

\* C18: with the widths within 6 and entire_height > 0, guess_pages and
\* guess_lines of the same heights agree at three lines a page: the page
\* count is the line count divided by 3, rounded up.
C18_PagesMatchLines ==
    (fn = "guess_pages" /\ args[3] - args[1] <= 6 /\ args[1] - args[3] <= 6
        /\ args[4] > 0) =>
        LET lines == guess_lines(args[1], args[2], args[3], args[4]).val[1]
        IN  ret = Return((lines + 2) \div 3)

====
